---- MODULE Spec2Model ----
(***************************************************************************)
(* GitEase Agent (gitease_Agent.py): the workflow engine.                  *)
(*                                                                         *)
(* Text is modelled as a sequence of tokens.  A token is a record          *)
(*   [t |-> "lit", pad |-> FALSE, v |-> <<text>>]    literal text          *)
(*   [t |-> "ph",  pad |-> b,     v |-> <<k1,..>>]   the text {{k1.k2...}} *)
(* pad = TRUE stands for blanks inside the braces ({{ k1.k2 }}).           *)
(***************************************************************************)
EXTENDS Integers, Sequences, FiniteSets, TLC

\* ------------------------------------------------------------------ bounds
\* Largest number of answers typed at `version` prompts during one call of
\* substitute_variables.
MaxPrompts == 2
\* Numeric workflow selections are drawn from -1 .. MaxChoice.
MaxChoice == 11
\* Templates handed to substitute_variables directly have 1 .. MaxTemplateLen tokens.
MaxTemplateLen == 3
\* A pipe holds at most PipeCap unread lines; a writer to a full pipe blocks.
PipeCap == 2
\* A child process writes at most MaxWrites lines in all.
MaxWrites == 4

\* -------------------------------------------------------------------- text
L(x) == [t |-> "lit", pad |-> FALSE, v |-> <<x>>]
P(keys) == [t |-> "ph", pad |-> FALSE, v |-> keys]
PPad(keys) == [t |-> "ph", pad |-> TRUE, v |-> keys]

Blank == L(" ")

\* str.strip(): blanks removed at both ends.
RECURSIVE LStrip(_)
LStrip(s) == IF s # <<>> /\ Head(s) = Blank THEN LStrip(Tail(s)) ELSE s

RECURSIVE RStrip(_)
RStrip(s) ==
    IF s # <<>> /\ s[Len(s)] = Blank THEN RStrip(SubSeq(s, 1, Len(s) - 1)) ELSE s

Strip(s) == RStrip(LStrip(s))

\* str.replace(old, new) where old is the text of one placeholder token:
\* every occurrence is replaced.
RECURSIVE Replace(_, _, _)
Replace(s, old, new) ==
    IF s = <<>> THEN <<>>
    ELSE (IF Head(s) = old THEN new ELSE <<Head(s)>>) \o Replace(Tail(s), old, new)

\* re.findall(r"\{\{(.*?)\}\}", s): the placeholders of s, left to right,
\* one entry per occurrence.
FindAll(s) == SelectSeq(s, LAMBDA tok : tok.t = "ph")

\* Tokens whose text contains a colon.
ColonToks == {L("hooks:"), L("git merge_to_branch:"), L(":")}

\* command.split(':')[1] for a command whose first token holds the first
\* colon: the text between the first colon and the next one.
RECURSIVE UpToColon(_)
UpToColon(s) ==
    IF s = <<>> \/ Head(s) \in ColonToks THEN <<>>
    ELSE <<Head(s)>> \o UpToColon(Tail(s))

SplitColon1(command) == UpToColon(Tail(command))

\* command.startswith(prefix) for a one-token prefix.
StartsWith(command, prefix) == command # <<>> /\ Head(command) = prefix

\* ----------------------------------------------------------- configuration
\* A node of the loaded YAML tree: kind is the Python type of the value and
\* val is its text (for scalars).
Node(kind, val) == [kind |-> kind, val |-> val]

Step(desc, run) == [hasDesc |-> TRUE, description |-> desc, run |-> run]
StepNoDesc(run) == [hasDesc |-> FALSE, description |-> "", run |-> run]

NoPaths == [p \in {} |-> Node("dict", <<>>)]

\* load_config() returning None.
NoneConfig ==
    [isNone |-> TRUE, workflows |-> <<>>, hooks |-> <<>>, vars |-> NoPaths]

BaseVars ==
    [p \in {<<"project_name">>, <<"branches">>, <<"branches", "prod">>,
            <<"port">>, <<"dry_run">>, <<"wrap">>} |->
        CASE p = <<"project_name">> -> Node("str", <<L("demo")>>)
          [] p = <<"branches">> -> Node("dict", <<>>)
          [] p = <<"branches", "prod">> -> Node("str", <<L("production")>>)
          [] p = <<"port">> -> Node("int", <<L("8080")>>)
          [] p = <<"dry_run">> -> Node("bool", <<L("True")>>)
          [] p = <<"wrap">> ->
                Node("str", <<L("["), P(<<"branches", "prod">>), L("]")>>)]

MainWorkflows ==
    << [name |-> "release",
        steps |-> << Step("tag", <<L("git tag v"), P(<<"version">>)>>) >>],
       [name |-> "sync",
        steps |-> << Step("merge to prod",
                          <<L("git merge_to_branch:"), P(<<"branches", "prod">>)>>),
                     Step("push", <<L("git push")>>) >>],
       [name |-> "check",
        steps |-> << Step("lint", <<L("hooks:"), L("lint")>>),
                     Step("extra", <<L("hooks:"), Blank, L("nope")>>),
                     StepNoDesc(<<L("make")>>),
                     Step("install", <<L("make install")>>) >>],
       [name |-> "broken",
        steps |-> << Step("hello", <<L("echo hi")>>),
                     Step("stage", <<L("deploy "), P(<<"branches", "staging">>)>>),
                     Step("bye", <<L("echo bye")>>) >>],
       [name |-> "empty", steps |-> << >>],
       [name |-> "serve",
        steps |-> << Step("serve", <<L("serve "), P(<<"port">>)>>) >>],
       [name |-> "padded",
        steps |-> << Step("pull", <<L("git pull origin "), PPad(<<"branches", "prod">>)>>),
                     Step("tag", <<L("git tag v"), PPad(<<"version">>)>>) >>] >>

MainHooks ==
    << [name |-> <<L("lint")>>,
        cmds |-> << <<L("flake8")>>, <<L("mypy "), P(<<"branches", "prod">>)>>,
                    <<L("pytest")>> >>] >>

MainConfig ==
    [isNone |-> FALSE, workflows |-> MainWorkflows, hooks |-> MainHooks,
     vars |-> BaseVars]

\* The same file with a top-level `version` key.
VersionedConfig ==
    [MainConfig EXCEPT !.vars =
        [p \in DOMAIN BaseVars \cup {<<"version">>} |->
            IF p = <<"version">> THEN Node("str", <<L("1.0.0")>>) ELSE BaseVars[p]]]

\* A file with neither workflows nor hooks.
BareConfig ==
    [isNone |-> FALSE, workflows |-> <<>>, hooks |-> <<>>,
     vars |-> [p \in {<<"project_name">>} |-> Node("str", <<L("demo")>>)]]

Configs == {MainConfig, VersionedConfig, BareConfig}

WorkflowNames(config) ==
    [k \in 1..Len(config.workflows) |-> config.workflows[k].name]

\* The whole tree that value[key] walks: the variables plus the `workflows`
\* and `hooks` sections themselves.
Tree(config) ==
    LET wf == IF config.workflows = <<>> THEN {}
              ELSE {<<"workflows">>} \cup
                   {<<"workflows", config.workflows[k].name>> :
                        k \in 1..Len(config.workflows)}
        hk == IF config.hooks = <<>> THEN {} ELSE {<<"hooks">>}
    IN  [p \in DOMAIN config.vars \cup wf \cup hk |->
            IF p \in DOMAIN config.vars THEN config.vars[p]
            ELSE IF Len(p) = 1 THEN Node("dict", <<>>) ELSE Node("list", <<>>)]

\* config.get('workflows', {}).get(workflow_name): the steps, or None
\* (modelled as the empty list, which `not workflow` cannot tell apart).
WorkflowGet(config, workflow_name) ==
    LET ks == {k \in 1..Len(config.workflows) :
                   config.workflows[k].name = workflow_name}
    IN  IF ks = {} THEN <<>> ELSE config.workflows[CHOOSE k \in ks : TRUE].steps

\* The lookup with the name ignored: the first group whatever was asked for.
HookCommandsAnyGroup(config, hook_name) ==
    IF config.hooks = <<>> THEN <<>> ELSE config.hooks[1].cmds

\* config.get('hooks', {}).get(hook_name, [])
HookCommands(config, hook_name) ==
    LET ks == {k \in 1..Len(config.hooks) : config.hooks[k].name = hook_name}
    IN  IF ks = {} THEN <<>> ELSE config.hooks[CHOOSE k \in ks : TRUE].cmds

\* --------------------------------------------------- substitute_variables
\* The walk `for key in keys: value = value[key]` from the root of the tree:
\* "ok" with the node reached, "KeyError" when a dict lacks the key,
\* "TypeError" when a value that is not a dict is indexed by a key.
Walk(tree, keys) ==
    LET Pre(n) == SubSeq(keys, 1, n)
        bad == {n \in 1..Len(keys) :
                    \/ Pre(n) \notin DOMAIN tree
                    \/ n > 1 /\ Pre(n - 1) \in DOMAIN tree
                             /\ tree[Pre(n - 1)].kind # "dict"}
    IN  IF bad = {} THEN [st |-> "ok", node |-> tree[keys]]
        ELSE LET n == CHOOSE m \in bad : \A o \in bad : m <= o
             IN  IF n > 1 /\ tree[Pre(n - 1)].kind # "dict"  \* Pre(n - 1) was reached
                 THEN [st |-> "TypeError", node |-> Node("none", <<>>)]
                 ELSE [st |-> "KeyError", node |-> Node("none", <<>>)]

\* placeholder == 'version': the captured text, compared before any strip.
IsVersion(placeholder) == placeholder.v = <<"version">> /\ ~placeholder.pad

\* str.replace(old, value) accepts a str value only.
Replaceable(node) == node.kind = "str"

\* A console line: what was printed and a number that goes with it.
Ev(e, n) == [ev |-> e, n |-> n]

\* The prompt's answer taken as typed, blanks and all.
VersionInputRaw(line) == line

\* input("Please enter the version ...").strip()
VersionInput(line) == Strip(line)

SubstResult(res, s, used, out) == [res |-> res, s |-> s, used |-> used, out |-> out]

\* The loop over placeholders.  answers are the raw lines typed at the
\* version prompts of this call, used counts those read so far, out is what
\* was printed.  res is "ok" (the string s is returned), "none" (None is
\* returned), "raise" (an exception other than KeyError leaves the
\* function) or "starved" (a further answer is needed).
RECURSIVE SubstLoop(_, _, _, _, _, _)
SubstLoop(placeholders, command_string, config, answers, used, out) ==
    IF placeholders = <<>> THEN SubstResult("ok", command_string, used, out)
    ELSE LET placeholder == Head(placeholders)
             w == Walk(Tree(config), placeholder.v)
         IN  CASE w.st = "TypeError" -> SubstResult("raise", <<>>, used, out)
               [] w.st = "ok" ->
                    IF Replaceable(w.node)
                    THEN SubstLoop(Tail(placeholders),
                                   Replace(command_string, placeholder, w.node.val),
                                   config, answers, used, out)
                    ELSE SubstResult("raise", <<>>, used, out)
               [] w.st = "KeyError" ->
                    IF IsVersion(placeholder)
                    THEN IF used >= Len(answers)
                         THEN SubstResult("starved", <<>>, used, out)
                         ELSE LET version_input == VersionInput(answers[used + 1])
                                  asked == Append(out, Ev("version_prompt", used + 1))
                              IN  IF version_input = <<>>
                                  THEN SubstResult("none", <<>>, used + 1,
                                                   Append(asked, Ev("version_empty", 0)))
                                  ELSE SubstLoop(Tail(placeholders),
                                                 Replace(command_string,
                                                         P(<<"version">>), version_input),
                                                 config, answers, used + 1, asked)
                    ELSE SubstResult("none", <<>>, used,
                                     Append(out, Ev("var_missing", Len(placeholder.v))))

substitute_variables(command_string, config, answers) ==
    SubstLoop(FindAll(command_string), command_string, config, answers, 0, <<>>)

\* Lines that can be typed at a version prompt: input() returns whatever
\* was typed, the text {{version}} included.
RawAnswers ==
    { <<>>, <<Blank>>, <<L("2.0.0")>>, <<Blank, L("3.1")>>, <<P(<<"version">>)>> }

RECURSIVE SeqsUpTo(_, _)
SeqsUpTo(S, n) ==
    IF n = 0 THEN { <<>> }
    ELSE LET shorter == SeqsUpTo(S, n - 1)
         IN  shorter \cup {Append(q, x) : q \in {r \in shorter : Len(r) = n - 1}, x \in S}

AnswerSeqs == SeqsUpTo(RawAnswers, MaxPrompts)

\* ------------------------------------------------------------------- state
VARIABLES
    entry,           \* "main": the script was started; "call": execute_workflow was called
    pc,              \* where control is
    exitCode,        \* the process exit status once pc = "exited", -1 before
    config,          \* the loaded configuration
    current_branch,  \* the session's branch, <<>> for None or ''
    choice,          \* what was typed at the workflow selection prompt
    workflow_name,   \* the argument of execute_workflow
    workflow,        \* the steps looked up under workflow_name
    plan,            \* the plan list of execute_workflow
    shown,           \* the plan as printed by the preview, <<>> before
    answer,          \* what was typed at the confirmation prompt
    i,               \* the step the execution loop is at (1-based)
    cmds,            \* the commands the current step runs, in order
    j,               \* the next command of cmds
    success,         \* the success flag of the current step
    results,         \* the success flag each finished step ended with
    invoked,         \* every run_command call so far: step, position, command, outcome
    console,         \* what was printed, in order
    head,            \* the branch the repository has checked out
    template,        \* the argument of a direct call of substitute_variables
    typed,           \* the lines typed at the version prompts of that call
    resolved,        \* what that call produced
    child,           \* the process run_command started: lines left to write, exit
    pipes,           \* unread lines in the stdout and stderr pipes
    ret              \* what run_command returned, "none" before

vars == <<entry, pc, exitCode, config, current_branch, choice, workflow_name,
          workflow, plan, shown, answer, i, cmds, j, success, results,
          invoked, console, head, template, typed, resolved, child, pipes, ret>>

mainVars == <<config, current_branch, choice>>
planVars == <<workflow, plan, shown, answer>>
execVars == <<i, cmds, j, success, results, invoked>>
substVars == <<template, typed, resolved>>
pipeVars == <<child, pipes, ret>>

Branches == { <<L("feature-x")>>, <<L("main")>> }

\* Names execute_workflow is called with directly; "deploy" is in no config.
CallNames == {"release", "sync", "check", "broken", "empty", "serve", "padded", "deploy"}

NoChoice == [kind |-> "none", n |-> 0]

Choices ==
    {[kind |-> "int", n |-> n] : n \in -1..MaxChoice}
        \cup {[kind |-> "text", n |-> 0], [kind |-> "interrupt", n |-> 0]}

\* The tokens the templates of direct substitute_variables calls are made of.
TemplateToks ==
    { L("git tag v"), P(<<"version">>), P(<<"branches", "prod">>), P(<<"wrap">>),
      P(<<"port">>), P(<<"branches">>), P(<<"branches", "staging">>),
      P(<<"branches", "prod", "name">>) }

Templates == SeqsUpTo(TemplateToks, MaxTemplateLen) \ { <<>> }

\* What a child process does: the pipe each of its lines goes to, in order.
Programs == SeqsUpTo({"out", "err"}, MaxWrites)

NoResult == SubstResult("none", <<>>, 0, <<>>)
NoChild == [todo |-> <<>>, exited |-> FALSE, code |-> 0]
NoPipes == [out |-> 0, err |-> 0]

\* entry is "main" (the script is run), "call" (execute_workflow is called),
\* "subst" (substitute_variables is called) or "run" (run_command is called).
Init ==
    /\ entry \in {"main", "call", "subst", "run"}
    /\ exitCode = -1
    /\ choice = NoChoice
    /\ workflow = <<>> /\ plan = <<>> /\ shown = <<>> /\ answer = ""
    /\ i = 0 /\ cmds = <<>> /\ j = 0 /\ success = TRUE /\ results = <<>>
    /\ invoked = <<>> /\ console = <<>>
    /\ typed = <<>> /\ resolved = NoResult
    /\ pipes = NoPipes /\ ret = "none"
    /\ CASE entry = "main" ->
              /\ pc = "load_config"
              /\ config = NoneConfig
              /\ current_branch = <<>>
              /\ head \in Branches
              /\ workflow_name = ""
              /\ template = <<>> /\ child = NoChild
         [] entry = "call" ->
              /\ pc = "execute_workflow"
              /\ config \in Configs
              /\ current_branch \in Branches
              /\ head \in Branches
              /\ workflow_name \in CallNames
              /\ template = <<>> /\ child = NoChild
         [] entry = "subst" ->
              /\ pc = "substitute_variables"
              /\ config \in Configs
              /\ template \in Templates
              /\ current_branch = <<>> /\ head = <<>> /\ workflow_name = ""
              /\ child = NoChild
         [] entry = "run" ->
              /\ pc = "popen"
              /\ child \in [todo : Programs, exited : {FALSE}, code : {0, 1}]
              /\ config = NoneConfig
              /\ template = <<>>
              /\ current_branch = <<>> /\ head = <<>> /\ workflow_name = ""

Say(e, n) == console' = Append(console, Ev(e, n))

\* sys.exit(code)
Exit(code) == pc' = "exited" /\ exitCode' = code

\* ---------------------------------------------------------------- main
\* config = load_config(); if not config: sys.exit(1)
MainLoadConfig ==
    /\ pc = "load_config"
    /\ \E outcome \in {"missing", "yaml_error", "empty_file", "parsed"} :
          IF outcome = "parsed"
          THEN /\ config' \in Configs
               /\ pc' = "get_branch"
               /\ UNCHANGED <<exitCode, console>>
          ELSE /\ config' = NoneConfig
               /\ Exit(1)
               /\ IF outcome = "empty_file" THEN UNCHANGED console
                  ELSE Say("config_error", 0)
    /\ UNCHANGED <<entry, substVars, pipeVars, head, current_branch, choice,
                   workflow_name, planVars, execVars>>

\* current_branch = get_current_branch(); if not current_branch: sys.exit(1)
MainGetBranch ==
    /\ pc = "get_branch"
    /\ \E outcome \in {"CalledProcessError", "output"} :
          IF outcome = "CalledProcessError"
          THEN /\ current_branch' = <<>>
               /\ Say("branch_error", 0)
               /\ Exit(1)
          ELSE /\ current_branch' \in {head, <<>>}
               /\ IF current_branch' = <<>>
                  THEN Exit(1) /\ UNCHANGED console
                  ELSE /\ pc' = "list_workflows"
                       /\ Say("agent_header", 0)
                       /\ UNCHANGED exitCode
    /\ UNCHANGED <<entry, substVars, pipeVars, head, config, choice, workflow_name,
                   planVars, execVars>>

\* available_workflows = list(config.get('workflows', {}).keys()) and its listing
MainListWorkflows ==
    /\ pc = "list_workflows"
    /\ IF WorkflowNames(config) = <<>>
       THEN Say("no_workflows", 0) /\ Exit(1)
       ELSE /\ Say("workflow_list", Len(WorkflowNames(config)))
            /\ pc' = "select"
            /\ UNCHANGED exitCode
    /\ UNCHANGED <<entry, substVars, pipeVars, head, mainVars, workflow_name, planVars,
                   execVars>>

\* The lower bound made strict: the first workflow cannot be chosen.
ValidChoiceAboveFirst(n, available_workflows) ==
    0 < n - 1 /\ n - 1 < Len(available_workflows)

\* 0 <= choice_index < len(available_workflows), with choice_index = n - 1
ValidChoice(n, available_workflows) ==
    0 <= n - 1 /\ n - 1 < Len(available_workflows)

\* The try block of main up to the call of execute_workflow.
MainSelect ==
    /\ pc = "select"
    /\ \E c \in Choices :
          /\ choice' = c
          /\ CASE c.kind = "interrupt" ->
                    /\ Say("goodbye", 0) /\ Exit(0)
                    /\ UNCHANGED workflow_name
               [] c.kind = "text" ->
                    /\ Say("invalid_input", 0)
                    /\ pc' = "main_end"
                    /\ UNCHANGED <<exitCode, workflow_name>>
               [] c.kind = "int" ->
                    IF ValidChoice(c.n, WorkflowNames(config))
                    THEN /\ workflow_name' = WorkflowNames(config)[(c.n - 1) + 1]
                         /\ pc' = "execute_workflow"
                         /\ UNCHANGED <<exitCode, console>>
                    ELSE /\ Say("invalid_choice", 0)
                         /\ pc' = "main_end"
                         /\ UNCHANGED <<exitCode, workflow_name>>
    /\ UNCHANGED <<entry, substVars, pipeVars, head, config, current_branch, planVars,
                   execVars>>

\* main returns and the interpreter exits with status 0.
MainEnd ==
    /\ pc = "main_end"
    /\ Exit(0)
    /\ UNCHANGED <<entry, substVars, pipeVars, head, mainVars, workflow_name, planVars,
                   execVars, console>>

\* ------------------------------------------------------ execute_workflow
\* `return` from execute_workflow: back into main's try block, or to the caller.
ReturnPc == IF entry = "main" THEN "main_end" ELSE "returned"

\* An exception that nothing catches leaves execute_workflow; main catches
\* only ValueError, IndexError and KeyboardInterrupt, so the process dies
\* with a traceback and status 1.
Raise ==
    IF entry = "main" THEN Exit(1) ELSE pc' = "raised" /\ UNCHANGED exitCode

\* What the interpreter prints when it dies of an uncaught exception.
Traceback == IF entry = "main" THEN <<Ev("traceback", 0)>> ELSE <<>>

\* The not-found check left out.
WorkflowNeverMissing(steps) == FALSE

\* if not workflow
WorkflowMissing(steps) == steps = <<>>

\* The lookup of the workflow and the plan header.
LookupWorkflow ==
    /\ pc = "execute_workflow"
    /\ workflow' = WorkflowGet(config, workflow_name)
    /\ IF WorkflowMissing(workflow')
       THEN Say("not_found", 0) /\ pc' = ReturnPc
       ELSE Say("plan_header", 0) /\ pc' = "plan"
    /\ plan' = <<>>
    /\ UNCHANGED <<entry, substVars, pipeVars, head, exitCode, mainVars, workflow_name,
                   shown, answer, execVars>>

\* step.get('description', 'No description')
Description(step) == IF step.hasDesc THEN step.description ELSE "No description"

PlanEntry(description, command) == [description |-> description, command |-> command]

\* The dry-run loop ending after its first pass.
PlanLoopDoneEarly(planned, steps) == Len(planned) >= 1

\* `for step in workflow` has no step left once len(plan) steps were taken.
PlanLoopDone(planned, steps) == Len(planned) >= Len(steps)

\* The None check left out: the loop goes on after a failed resolution.
PlanNeverAborts(r) == FALSE

\* if planned_cmd is None: return
PlanAborts(r) == r.res = "none"

\* The typed version kept in the tree for later placeholders.
ConfigCachingVersion(cfg, answers) ==
    IF answers = <<>> THEN cfg
    ELSE [cfg EXCEPT !.vars =
            [p \in DOMAIN cfg.vars \cup {<<"version">>} |->
                IF p = <<"version">> THEN Node("str", Strip(answers[1]))
                ELSE cfg.vars[p]]]

\* What substitute_variables leaves in the tree it was handed: it rebinds
\* its local `value` and assigns to no key.
ConfigAfterSubstitute(cfg, answers) == cfg

\* One pass of the dry-run loop: the step's run template is resolved and
\* the entry appended, or the function returns.
PlanStep ==
    /\ pc = "plan"
    /\ ~PlanLoopDone(plan, workflow)
    /\ \E answers \in AnswerSeqs :
          LET step == workflow[Len(plan) + 1]
              r == substitute_variables(step.run, config, answers)
          IN  /\ r.res # "starved"
              /\ r.used = Len(answers)
              /\ console' = console \o r.out
                                \o (IF r.res = "raise" THEN Traceback ELSE <<>>)
              /\ IF r.res = "raise"
                 THEN Raise /\ UNCHANGED plan
                 ELSE IF PlanAborts(r)
                 THEN pc' = ReturnPc /\ UNCHANGED <<plan, exitCode>>
                 ELSE /\ plan' = Append(plan, PlanEntry(Description(step), r.s))
                      /\ pc' = "plan"
                      /\ UNCHANGED exitCode
              /\ config' = ConfigAfterSubstitute(config, answers)
    /\ UNCHANGED <<entry, substVars, pipeVars, head, current_branch, choice, workflow_name,
                   workflow, shown, answer, execVars>>

\* The preview: one numbered entry per element of plan.
ShowPlan ==
    /\ pc = "plan"
    /\ PlanLoopDone(plan, workflow)
    /\ shown' = plan
    /\ Say("plan_preview", Len(plan))
    /\ pc' = "confirm"
    /\ UNCHANGED <<entry, substVars, pipeVars, head, exitCode, mainVars, workflow_name,
                   workflow, plan, answer,
                   execVars>>

ConfirmAnswers == {"y", "Y", "n", "N", "yes", ""}

\* str.lower()
Lower(a) == CASE a = "Y" -> "y" [] a = "N" -> "n" [] OTHER -> a

\* Anything but a plain no taken for consent.
ProceedsUnlessNo(a) == Lower(a) # "n"

\* input(...).lower() != 'y' is false
Proceeds(a) == Lower(a) = "y"

\* The for loop over enumerate(plan, 1): at step idx, or past the end.
LoopPc(idx, planned) == IF idx <= Len(planned) THEN "step" ELSE "finish"

\* The confirmation prompt.
Confirm ==
    /\ pc = "confirm"
    /\ \E a \in ConfirmAnswers :
          /\ answer' = a
          /\ IF Proceeds(a)
             THEN /\ console' = console \o <<Ev("confirm_prompt", 0), Ev("exec_header", 0)>>
                  /\ i' = 1
                  /\ pc' = LoopPc(1, plan)
             ELSE /\ console' = console \o <<Ev("confirm_prompt", 0), Ev("cancelled", 0)>>
                  /\ pc' = ReturnPc
                  /\ UNCHANGED i
    /\ UNCHANGED <<entry, substVars, pipeVars, head, exitCode, mainVars, workflow_name,
                   workflow, plan, shown,
                   cmds, j, success, results, invoked>>

\* The branch of the if/elif/else that a command takes.
StepKind(command) ==
    IF StartsWith(command, L("hooks:")) THEN "hook"
    ELSE IF StartsWith(command, L("git merge_to_branch:")) THEN "merge"
    ELSE "plain"

\* The four operands of the `and` chain, in order.
MergeCommands(target_branch, branch) ==
    << <<L("git checkout ")>> \o target_branch,
       <<L("git pull origin ")>> \o target_branch,
       <<L("git merge ")>> \o branch,
       <<L("git checkout ")>> \o branch >>

\* Hook entries put through substitute_variables before they are run.
StepCommandsHooksResolved(command, cfg, branch) ==
    CASE StepKind(command) = "hook" ->
            LET raw == HookCommands(cfg, Strip(SplitColon1(command)))
            IN  [n \in 1..Len(raw) |-> substitute_variables(raw[n], cfg, <<>>).s]
      [] StepKind(command) = "merge" ->
            MergeCommands(Strip(SplitColon1(command)), branch)
      [] OTHER -> <<command>>

\* The commands a step hands to run_command if none of them fails.
StepCommands(command, cfg, branch) ==
    CASE StepKind(command) = "hook" ->
            HookCommands(cfg, Strip(SplitColon1(command)))
      [] StepKind(command) = "merge" ->
            MergeCommands(Strip(SplitColon1(command)), branch)
      [] OTHER -> <<command>>

\* The head of one pass of the execution loop: the step is announced and
\* its branch chosen.
BeginStep ==
    /\ pc = "step"
    /\ Say("step_announce", i)
    /\ cmds' = StepCommands(plan[i].command, config, current_branch)
    /\ j' = 1
    /\ success' = TRUE
    /\ pc' = IF cmds' = <<>> THEN "step_end" ELSE StepKind(plan[i].command)
    /\ UNCHANGED <<entry, substVars, pipeVars, head, exitCode, mainVars, workflow_name,
                   planVars, i, results,
                   invoked>>

Call(step, sub, cmd, ok) == [step |-> step, sub |-> sub, cmd |-> cmd, ok |-> ok]

\* The break left out of the hook loop.
HookNeverBreaks(ok) == FALSE

\* if not run_command(hook_cmd): success = False; break
HookBreaks(ok) == ~ok

\* One pass of `for hook_cmd in hook_commands`.
RunHookCommand ==
    /\ pc = "hook"
    /\ \E ok \in BOOLEAN :
          /\ invoked' = Append(invoked, Call(i, j, cmds[j], ok))
          /\ success' = (success /\ ok)
          /\ j' = j + 1
          /\ pc' = IF HookBreaks(ok) \/ j = Len(cmds) THEN "step_end" ELSE "hook"
    /\ UNCHANGED <<entry, substVars, pipeVars, head, exitCode, mainVars, workflow_name,
                   planVars, i, cmds,
                   results, console>>

\* All four operands evaluated whatever the earlier ones returned.
MergeNeverShortCircuits(ok) == FALSE

\* `a and b`: b is not evaluated when a is false.
MergeShortCircuits(ok) == ~ok

\* The branch checked out after a command: `git checkout <b>` that succeeds
\* leaves the repository on <b>; nothing else moves it.
HeadAfter(h, cmd, ok) ==
    IF ok /\ StartsWith(cmd, L("git checkout ")) THEN Tail(cmd) ELSE h

\* One operand of the `and` chain of the guarded merge.
RunMergeCommand ==
    /\ pc = "merge"
    /\ \E ok \in BOOLEAN :
          /\ invoked' = Append(invoked, Call(i, j, cmds[j], ok))
          /\ head' = HeadAfter(head, cmds[j], ok)
          /\ success' = (success /\ ok)
          /\ j' = j + 1
          /\ pc' = IF MergeShortCircuits(ok) \/ j = Len(cmds) THEN "step_end" ELSE "merge"
    /\ UNCHANGED <<entry, substVars, pipeVars, exitCode, mainVars, workflow_name,
                   planVars, i, cmds,
                   results, console>>

\* success = run_command(command)
RunPlainCommand ==
    /\ pc = "plain"
    /\ \E ok \in BOOLEAN :
          /\ invoked' = Append(invoked, Call(i, j, cmds[j], ok))
          /\ success' = ok
          /\ j' = j + 1
          /\ pc' = "step_end"
    /\ UNCHANGED <<entry, substVars, pipeVars, head, exitCode, mainVars, workflow_name,
                   planVars, i, cmds,
                   results, console>>

\* The break left out of the execution loop.
StepNeverAborts(ok) == FALSE

\* if not success: ... break
StepAborts(ok) == ~ok

\* The tail of one pass of the execution loop.
EndStep ==
    /\ pc = "step_end"
    /\ results' = Append(results, success)
    /\ IF StepAborts(success)
       THEN /\ Say("step_failed", i)
            /\ pc' = "finish"
            /\ UNCHANGED i
       ELSE /\ Say("step_ok", i)
            /\ i' = i + 1
            /\ pc' = LoopPc(i + 1, plan)
    /\ UNCHANGED <<entry, substVars, pipeVars, head, exitCode, mainVars, workflow_name,
                   planVars, cmds, j,
                   success, invoked>>

\* print_header("Workflow finished.") after the loop, then the return.
Finish ==
    /\ pc = "finish"
    /\ Say("workflow_finished", 0)
    /\ pc' = ReturnPc
    /\ UNCHANGED <<entry, substVars, pipeVars, head, exitCode, mainVars, workflow_name,
                   planVars, execVars>>

\* --------------------------------------- substitute_variables, called alone
SubstituteCall ==
    /\ pc = "substitute_variables"
    /\ \E answers \in AnswerSeqs :
          LET r == substitute_variables(template, config, answers)
          IN  /\ r.res # "starved"
              /\ r.used = Len(answers)
              /\ typed' = answers
              /\ resolved' = r
              /\ console' = console \o r.out
              /\ config' = ConfigAfterSubstitute(config, answers)
              /\ pc' = IF r.res = "raise" THEN "raised" ELSE "returned"
    /\ UNCHANGED <<entry, pipeVars, head, template, exitCode, current_branch, choice,
                   workflow_name, planVars, execVars>>

\* ------------------------------------------------------------ run_command
runUnchanged ==
    <<entry, substVars, head, exitCode, mainVars, workflow_name, planVars, execVars>>

\* print_command and subprocess.Popen; an exception here is caught at line 60.
RunPopen ==
    /\ pc = "popen"
    /\ \E started \in BOOLEAN :
          IF started
          THEN /\ Say("command", 0)
               /\ pc' = "read_stdout"
               /\ UNCHANGED ret
          ELSE /\ console' = console \o <<Ev("command", 0), Ev("exception", 0)>>
               /\ ret' = "False"
               /\ pc' = "returned"
    /\ UNCHANGED <<runUnchanged, child, pipes>>

\* The child writes its next line; the write blocks while that pipe is full.
ChildWrite ==
    /\ pc \in {"read_stdout", "wait", "read_stderr"}
    /\ ~child.exited
    /\ child.todo # <<>>
    /\ pipes[Head(child.todo)] < PipeCap
    /\ pipes' = [pipes EXCEPT ![Head(child.todo)] = @ + 1]
    /\ child' = [child EXCEPT !.todo = Tail(@)]
    /\ UNCHANGED <<runUnchanged, pc, ret, console>>

\* The child has written everything and exits, closing its ends of the pipes.
ChildExit ==
    /\ pc \in {"read_stdout", "wait", "read_stderr"}
    /\ ~child.exited
    /\ child.todo = <<>>
    /\ child' = [child EXCEPT !.exited = TRUE]
    /\ UNCHANGED <<runUnchanged, pc, ret, pipes, console>>

\* for line in process.stdout: print(line, end='')
ReadStdoutLine ==
    /\ pc = "read_stdout"
    /\ pipes.out > 0
    /\ pipes' = [pipes EXCEPT !.out = @ - 1]
    /\ Say("stdout_line", 0)
    /\ UNCHANGED <<runUnchanged, pc, ret, child>>

\* The stdout loop ends at end of file: the pipe is empty and its writer gone.
ReadStdoutEOF ==
    /\ pc = "read_stdout"
    /\ pipes.out = 0
    /\ child.exited
    /\ pc' = "wait"
    /\ UNCHANGED <<runUnchanged, ret, child, pipes, console>>

\* process.wait() and the test of returncode
WaitChild ==
    /\ pc = "wait"
    /\ child.exited
    /\ IF child.code # 0
       THEN pc' = "read_stderr" /\ UNCHANGED ret
       ELSE pc' = "returned" /\ ret' = "True"
    /\ UNCHANGED <<runUnchanged, child, pipes, console>>

\* for line in process.stderr: print_error(...)
ReadStderrLine ==
    /\ pc = "read_stderr"
    /\ pipes.err > 0
    /\ pipes' = [pipes EXCEPT !.err = @ - 1]
    /\ Say("stderr_line", 0)
    /\ UNCHANGED <<runUnchanged, pc, ret, child>>

\* The stderr loop ends at end of file; return False
ReturnFalse ==
    /\ pc = "read_stderr"
    /\ pipes.err = 0
    /\ child.exited
    /\ ret' = "False"
    /\ pc' = "returned"
    /\ UNCHANGED <<runUnchanged, child, pipes, console>>

RunNext ==
    \/ RunPopen \/ ChildWrite \/ ChildExit \/ ReadStdoutLine \/ ReadStdoutEOF
    \/ WaitChild \/ ReadStderrLine \/ ReturnFalse

Next ==
    \/ SubstituteCall
    \/ RunNext
    \/ MainLoadConfig \/ MainGetBranch \/ MainListWorkflows \/ MainSelect \/ MainEnd
    \/ LookupWorkflow \/ PlanStep \/ ShowPlan \/ Confirm
    \/ BeginStep \/ RunHookCommand \/ RunMergeCommand \/ RunPlainCommand
    \/ EndStep \/ Finish

Spec == Init /\ [][Next]_vars

\* ------------------------------------------------------------ properties
ConsoleHas(e) == \E x \in 1..Len(console) : console[x].ev = e

\* The numbers printed with one kind of console line.
ConsoleNs(e) == {console[x].n : x \in {y \in 1..Len(console) : console[y].ev = e}}

\* The run_command calls of step k, in order.
CallsOf(k) == SelectSeq(invoked, LAMBDA c : c.step = k)

\* Control has left execute_workflow.
Left == pc \in {"returned", "raised", "main_end", "exited"}

\* Steps with a failed command.
FailedSteps == {invoked[c].step : c \in {d \in 1..Len(invoked) : ~invoked[d].ok}}

\* C1: fail-fast.  When a command of step k fails, no command of a later
\* step is ever invoked, no later step is announced, and the one step
\* reported as failed is step k, the last step announced.
ThmC1_FailFast ==
    \A k \in FailedSteps :
        /\ \A c \in 1..Len(invoked) : invoked[c].step <= k
        /\ k \in ConsoleNs("step_announce")
        /\ \A n \in ConsoleNs("step_announce") : n <= k
        /\ ConsoleNs("step_failed") \subseteq {k}
        /\ Left => ConsoleNs("step_failed") = {k}

\* A three-step-or-longer plan whose middle step failed, after the run.
WitC1_MiddleStepFailed ==
    /\ Left
    /\ FailedSteps = {3}
    /\ Len(plan) = 4
    /\ ConsoleNs("step_failed") = {3}

\* Some answers to the version prompts make run_cmd resolve to command.
ResolvesTo(run_cmd, command) ==
    \E answers \in AnswerSeqs :
        LET r == substitute_variables(run_cmd, config, answers)
        IN  r.res = "ok" /\ r.s = command

\* The plan has one resolved entry for every declared step of the workflow.
PlanComplete(planned) ==
    /\ Len(planned) = Len(workflow)
    /\ \A k \in 1..Len(workflow) : ResolvesTo(workflow[k].run, planned[k].command)

\* C2: once the execution phase has begun (and so whenever a command has
\* been invoked) the plan holds one resolved entry per declared step.
ThmC2_PlanBeforeExecution ==
    (invoked # <<>> \/ pc \in {"step", "hook", "merge", "plain", "step_end", "finish"})
        => PlanComplete(plan) /\ workflow # <<>>

\* The first command of a two-step workflow with a placeholder has run.
WitC2_FirstCommand ==
    /\ Len(invoked) = 1
    /\ Len(workflow) = 2
    /\ FindAll(workflow[1].run) # <<>>
    /\ Len(plan) = 2

\* C3: a command is invoked only after the whole plan was previewed and the
\* confirmation was answered y or Y; after any other answer nothing is
\* invoked and the run ends with the cancellation notice.
ThmC3_ConfirmationGate ==
    /\ invoked # <<>> =>
          /\ ConsoleHas("plan_preview") /\ ConsoleHas("confirm_prompt")
          /\ shown = plan /\ Len(shown) = Len(workflow)
          /\ answer \in {"y", "Y"}
    /\ (ConsoleHas("confirm_prompt") /\ answer \notin {"y", "Y"}) =>
          /\ invoked = <<>>
          /\ Left
          /\ console[Len(console)].ev = "cancelled"
          /\ ~ConsoleHas("exec_header")

\* A command ran after the answer Y.
WitC3_ConfirmedRun == invoked # <<>> /\ answer = "Y" /\ ConsoleHas("plan_preview")

\* The resolution of some step failed.
ResolutionFailed ==
    ConsoleHas("var_missing") \/ ConsoleHas("version_empty")
        \/ ConsoleHas("traceback") \/ pc = "raised"

\* C4: planning is all-or-nothing.  A previewed plan has one entry per
\* declared step, in order, with the step's description and resolved
\* command; when a resolution fails there is no preview, no confirmation
\* prompt and no command.
ThmC4_PlanAllOrNothing ==
    /\ ConsoleHas("plan_preview") =>
          /\ shown = plan
          /\ PlanComplete(shown)
          /\ \A k \in 1..Len(workflow) :
                shown[k].description =
                    IF workflow[k].hasDesc THEN workflow[k].description
                    ELSE "No description"
    /\ ResolutionFailed =>
          /\ Left
          /\ shown = <<>>
          /\ ~ConsoleHas("plan_preview")
          /\ ~ConsoleHas("confirm_prompt")
          /\ invoked = <<>>

\* The second step of a workflow failed to resolve after the first resolved.
WitC4_SecondStepUnresolved ==
    /\ Left
    /\ ConsoleHas("var_missing")
    /\ Len(plan) = 1
    /\ Len(workflow) = 3

\* C5: for a name that config.workflows does not hold, execute_workflow
\* prints only the not-found error and returns: no prompt, no plan, no
\* preview, no confirmation, no command.
ThmC5_WorkflowNotFound ==
    (pc # "execute_workflow" /\ entry = "call"
        /\ \A k \in 1..Len(config.workflows) : config.workflows[k].name # workflow_name)
      => /\ pc = "returned"
         /\ console = <<Ev("not_found", 0)>>
         /\ plan = <<>> /\ shown = <<>>
         /\ invoked = <<>>

\* execute_workflow was called with "deploy" against a config with workflows.
WitC5_DeployAbsent ==
    /\ workflow_name = "deploy"
    /\ config.workflows # <<>>
    /\ pc = "returned"
    /\ ConsoleHas("not_found")

\* Optional blank, as str.strip() forgives it around a macro argument.
Pads == { <<>>, <<Blank>> }

\* The plan command of step k is `git merge_to_branch:` followed by target.
IsMergeOf(k, target) ==
    \E a \in Pads, b \in Pads :
        plan[k].command = <<L("git merge_to_branch:")>> \o a \o target \o b

\* The sequence the guarded merge is to run for a target, from branch.
GuardedMerge(target, branch) ==
    << <<L("git checkout ")>> \o target, <<L("git pull origin ")>> \o target,
       <<L("git merge ")>> \o branch, <<L("git checkout ")>> \o branch >>

\* calls is a prefix of expected, and every call before the last succeeded.
GuardedPrefix(calls, expected) ==
    /\ Len(calls) <= Len(expected)
    /\ \A n \in 1..Len(calls) :
          /\ calls[n].cmd = expected[n]
          /\ n < Len(calls) => calls[n].ok

AllOk(calls) == \A n \in 1..Len(calls) : calls[n].ok

Targets == { <<L("production")>> }

\* C6: a guarded merge step invokes checkout target, pull origin target,
\* merge currentBranch, checkout currentBranch in this order, each only
\* after all earlier ones succeeded, and ends successful exactly when all
\* four were invoked and succeeded.
ThmC6_GuardedMerge ==
    invoked # <<>> =>
        \A k \in 1..Len(plan) : \A target \in Targets :
            IsMergeOf(k, target) =>
                /\ GuardedPrefix(CallsOf(k), GuardedMerge(target, current_branch))
                /\ k <= Len(results) =>
                      (results[k] <=> (Len(CallsOf(k)) = 4 /\ AllOk(CallsOf(k))))

\* The merge sub-operation failed: three calls, no switch-back, step failed.
WitC6_MergeFailed ==
    /\ Len(results) = 1 /\ ~results[1]
    /\ IsMergeOf(1, <<L("production")>>)
    /\ Len(CallsOf(1)) = 3
    /\ CallsOf(1)[3].cmd = <<L("git merge ")>> \o current_branch
    /\ ~CallsOf(1)[3].ok

\* The plan command of step k is `hooks:` followed by name.
IsHookOf(k, name) ==
    \E a \in Pads, b \in Pads : plan[k].command = <<L("hooks:")>> \o a \o name \o b

HookNames == { <<L("lint")>>, <<L("nope")>> }

\* C7: a hook step whose group is in config.hooks invokes the group's
\* commands as declared, in order, each only after all earlier ones
\* succeeded; nothing follows the first failing command, and the step fails
\* exactly when an invoked hook command failed.
ThmC7_HookGroup ==
    invoked # <<>> =>
        \A k \in 1..Len(plan) : \A h \in 1..Len(config.hooks) :
            IsHookOf(k, config.hooks[h].name) =>
                /\ GuardedPrefix(CallsOf(k), config.hooks[h].cmds)
                /\ k <= Len(results) =>
                      /\ results[k] <=> AllOk(CallsOf(k))
                      /\ results[k] => Len(CallsOf(k)) = Len(config.hooks[h].cmds)

\* The second of three hook commands failed and the step ended failed.
WitC7_SecondHookFailed ==
    /\ Len(results) = 1 /\ ~results[1]
    /\ IsHookOf(1, <<L("lint")>>)
    /\ Len(CallsOf(1)) = 2
    /\ CallsOf(1)[1].ok /\ ~CallsOf(1)[2].ok

\* C8: a hook step whose name has no entry in config.hooks invokes nothing,
\* is reported as completed successfully, and the next step is taken up.
ThmC8_MissingHookGroup ==
    \A k \in 1..Len(plan) : \A name \in HookNames :
        (/\ ConsoleHas("exec_header")
         /\ IsHookOf(k, name)
         /\ \A h \in 1..Len(config.hooks) : config.hooks[h].name # name) =>
            /\ CallsOf(k) = <<>>
            /\ k <= Len(results) =>
                  /\ results[k]
                  /\ k \in ConsoleNs("step_ok")
                  /\ k \notin ConsoleNs("step_failed")
                  /\ k < Len(plan) =>
                        (pc = "step" /\ i = k + 1) \/ (k + 1) \in ConsoleNs("step_announce")

\* The step naming the missing group was reported successful and the next
\* step was announced.
WitC8_MissingHookPassed ==
    /\ Len(plan) >= 3 /\ Len(results) >= 2
    /\ IsHookOf(2, <<L("nope")>>)
    /\ results[2]
    /\ CallsOf(2) = <<>>
    /\ 3 \in ConsoleNs("step_announce")

\* C9: the final "workflow finished" report is given only to a run in which
\* every step of the plan completed successfully; a run with a failed step
\* is reported aborted and never finished.
StmtC9_FinishedOnlyWhenComplete ==
    ConsoleHas("workflow_finished") =>
        /\ Len(results) = Len(plan)
        /\ \A k \in 1..Len(results) : results[k]
        /\ ~ConsoleHas("step_failed")

\* No configuration, no branch, no workflows, or a selection that is not a
\* number of the list.
SessionError ==
    \/ config.isNone
    \/ current_branch = <<>>
    \/ config.workflows = <<>>
    \/ choice.kind = "text"
    \/ choice.kind = "int" /\ ~(1 <= choice.n /\ choice.n <= Len(config.workflows))

\* C10: the session exits non-zero on a failed configuration load, an
\* undetermined branch, an empty workflow list or an invalid selection, and
\* exits zero after a workflow run, whatever its steps did.
StmtC10_ExitStatus ==
    (entry = "main" /\ pc = "exited") =>
        /\ SessionError => exitCode # 0
        /\ ConsoleHas("exec_header") => exitCode = 0

\* A direct call of substitute_variables has ended.
Substituted == entry = "subst" /\ pc \in {"returned", "raised"}

\* The placeholder's path leads to a string of the tree.
LooksUpText(placeholder) ==
    LET w == Walk(Tree(config), placeholder.v)
    IN  w.st = "ok" /\ w.node.kind = "str"

\* s with each placeholder occurrence replaced, where it stands, by the
\* value its path leads to, and nothing else touched.
RECURSIVE EachReplaced(_)
EachReplaced(s) ==
    IF s = <<>> THEN <<>>
    ELSE (IF Head(s).t = "ph" THEN Tree(config)[Head(s).v].val ELSE <<Head(s)>>)
             \o EachReplaced(Tail(s))

\* C11: when every placeholder of the template resolves by dotted-path
\* lookup, the result is the template with each placeholder occurrence
\* replaced in place by exactly its looked-up value; a substituted value is
\* not touched by the substitution of another placeholder.
StmtC11_VerbatimInPlace ==
    (Substituted /\ \A n \in 1..Len(template) :
                        template[n].t = "ph" => LooksUpText(template[n]))
        => resolved.res = "ok" /\ resolved.s = EachReplaced(template)

\* The placeholder's path leads to a scalar of the tree, of whatever type.
LooksUpScalar(placeholder) ==
    LET w == Walk(Tree(config), placeholder.v)
    IN  w.st = "ok" /\ w.node.kind \in {"str", "int", "bool"}

\* C12: when every placeholder's path leads to a scalar (string, number or
\* boolean), substitute_variables returns the resolved string, each value
\* rendered as text; it neither fails nor raises.
StmtC12_AnyScalarRendered ==
    (Substituted /\ \A n \in 1..Len(template) :
                        template[n].t = "ph" => LooksUpScalar(template[n]))
        => /\ resolved.res = "ok"
           /\ FindAll(resolved.s) = <<>> => resolved.s = EachReplaced(template)

\* A placeholder other than `version` whose path leads to no value: a key
\* is missing somewhere on it, or it goes on below a scalar.
Unresolvable(placeholder) ==
    /\ placeholder.t = "ph"
    /\ ~(placeholder.v = <<"version">> /\ ~placeholder.pad)
    /\ Walk(Tree(config), placeholder.v).st # "ok"

\* C13: a template with an unresolvable placeholder other than `version`
\* (its other placeholders resolving to text) makes substitute_variables
\* report the missing variable and return None: no string comes back and no
\* exception leaves the function.
StmtC13_MissingGivesNone ==
    (/\ Substituted
     /\ \E n \in 1..Len(template) : Unresolvable(template[n])
     /\ \A n \in 1..Len(template) :
           template[n].t = "ph" => Unresolvable(template[n]) \/ LooksUpText(template[n]))
        => /\ resolved.res = "none"
           /\ resolved.s = <<>>
           /\ \E x \in 1..Len(resolved.out) : resolved.out[x].ev = "var_missing"
           /\ pc # "raised"

HasVersionKey == <<"version">> \in DOMAIN config.vars

\* The path leads to text that holds no placeholder text itself.
LooksUpPlainText(placeholder) ==
    LooksUpText(placeholder) /\ FindAll(Tree(config)[placeholder.v].val) = <<>>

\* s with every {{version}} replaced by v and every other placeholder by the
\* text its path leads to.
RECURSIVE WithVersion(_, _)
WithVersion(s, v) ==
    IF s = <<>> THEN <<>>
    ELSE (IF Head(s) = P(<<"version">>) THEN v
          ELSE IF Head(s).t = "ph" THEN Tree(config)[Head(s).v].val
          ELSE <<Head(s)>>) \o WithVersion(Tail(s), v)

\* How many times {{version}} stands in s.
VersionOccurrences(s) == Len(SelectSeq(s, LAMBDA tok : tok = P(<<"version">>)))

\* A direct call with one {{version}} in the template, no `version` key in
\* the tree, and every other placeholder resolving to plain text.
VersionCase ==
    /\ Substituted /\ ~HasVersionKey
    /\ VersionOccurrences(template) = 1
    /\ \A n \in 1..Len(template) :
          template[n].t = "ph" =>
              template[n] = P(<<"version">>) \/ LooksUpPlainText(template[n])

\* The prompt was shown; an empty answer gave None, otherwise the first
\* answer stands in place of {{version}}.
VersionAnswered ==
    /\ typed # <<>>
    /\ ConsoleHas("version_prompt")
    /\ IF \E n \in 1..Len(typed) : Strip(typed[n]) = <<>>
       THEN resolved.res = "none" /\ resolved.s = <<>> /\ ConsoleHas("version_empty")
       ELSE resolved.res = "ok" /\ resolved.s = WithVersion(template, Strip(typed[1]))

\* Planning ended without preview, confirmation or command.
PlanningAborted ==
    /\ Left
    /\ shown = <<>> /\ ~ConsoleHas("plan_preview")
    /\ ~ConsoleHas("confirm_prompt")
    /\ invoked = <<>>

\* The plan of the `release` workflow: the key's value, or a typed answer.
ReleaseTagPlanned ==
    IF HasVersionKey
    THEN plan[1].command = <<L("git tag v"), L("1.0.0")>>
    ELSE /\ ConsoleHas("version_prompt")
         /\ \E a \in RawAnswers :
               Strip(a) # <<>> /\ plan[1].command = <<L("git tag v")>> \o Strip(a)

\* C14: with no `version` key in the tree, a template holding {{version}}
\* once (its other placeholders resolving to plain text) prompts for a version;
\* the answer, if not empty, is what stands in place of {{version}} in the
\* result (`git tag v{{version}}` and 2.0.0 give `git tag v2.0.0`), and an
\* empty answer makes the call return None, after which planning ends with
\* no preview and no command.  With a `version` key there is no prompt.
ThmC14_VersionPrompt ==
    /\ HasVersionKey => ~ConsoleHas("version_prompt")
    /\ VersionCase => VersionAnswered
    /\ (entry \in {"main", "call"} /\ ConsoleHas("version_empty")) => PlanningAborted
    /\ (entry \in {"main", "call"} /\ workflow_name = "release" /\ plan # <<>>)
          => ReleaseTagPlanned

\* `git tag v{{version}}` resolved with the answer 2.0.0, no key in the tree.
WitC14_TagResolved ==
    /\ Substituted /\ ~HasVersionKey
    /\ template = <<L("git tag v"), P(<<"version">>)>>
    /\ typed = << <<L("2.0.0")>> >>
    /\ resolved.res = "ok"
    /\ resolved.s = <<L("git tag v"), L("2.0.0")>>

\* C15: once loaded, the configuration is never changed: no resolution,
\* planning step, hook or merge expansion or command execution assigns to it.
ThmC15_ConfigReadOnly == [][pc # "load_config" => config' = config]_vars

\* A session that prompted for a version, planned and executed a step.
WitC15_AfterPromptAndRun ==
    /\ entry = "main" /\ pc = "exited"
    /\ ConsoleHas("version_prompt")
    /\ invoked # <<>>
    /\ config = MainConfig

\* The plan command is no macro marker.
IsPlain(command) ==
    command = <<>> \/ Head(command) \notin {L("hooks:"), L("git merge_to_branch:")}

\* The call is one the plan accounts for: the resolved command of its plain
\* step, the entry at its position of the hook group its step names, as
\* written in config.hooks, or the sub-operation at its position of its
\* step's guarded merge.
Accounted(call) ==
    LET command == plan[call.step].command
    IN  \/ IsPlain(command) /\ call.cmd = command /\ call.sub = 1
        \/ \E h \in 1..Len(config.hooks) :
              /\ IsHookOf(call.step, config.hooks[h].name)
              /\ call.sub <= Len(config.hooks[h].cmds)
              /\ call.cmd = config.hooks[h].cmds[call.sub]
        \/ \E target \in Targets :
              /\ IsMergeOf(call.step, target)
              /\ call.sub <= 4
              /\ call.cmd = GuardedMerge(target, current_branch)[call.sub]

\* C17: every command handed to run_command is the resolved command of a
\* plain step, a hook entry exactly as config.hooks has it (placeholders
\* left as they are), or a sub-operation of a guarded merge; no position of
\* a step is run twice.
ThmC17_OnlyPlannedCommands ==
    /\ \A c \in 1..Len(invoked) :
          invoked[c].step \in 1..Len(plan) /\ Accounted(invoked[c])
    /\ \A c, d \in 1..Len(invoked) :
          (invoked[c].step = invoked[d].step /\ invoked[c].sub = invoked[d].sub) => c = d

\* The hook entry `mypy {{branches.prod}}` was run with its braces intact
\* and a plain step ran later in the same workflow.
WitC17_HookEntryVerbatim ==
    /\ \E c \in 1..Len(invoked) :
          invoked[c].cmd = <<L("mypy "), P(<<"branches", "prod">>)>>
    /\ \E c \in 1..Len(invoked) : invoked[c].cmd = <<L("make")>>

\* C18: run_command cannot get stuck on the pipes: whatever finite output
\* the child writes to stdout and stderr, as long as run_command has not
\* returned, the child or run_command itself can take a step.
StmtC18_NeverStuck ==
    entry = "run" => (pc = "returned" \/ ENABLED RunNext)

\* The selection is a number of the listing, counted from 1.
InListing == choice.kind = "int" /\ 1 <= choice.n /\ choice.n <= Len(config.workflows)

\* Nothing of execute_workflow has happened and the session is over.
NothingPlanned ==
    /\ workflow_name = "" /\ workflow = <<>> /\ plan = <<>> /\ shown = <<>>
    /\ ~ConsoleHas("plan_header") /\ ~ConsoleHas("plan_preview")
    /\ ~ConsoleHas("not_found") /\ ~ConsoleHas("version_prompt")
    /\ ~ConsoleHas("confirm_prompt")
    /\ invoked = <<>>
    /\ pc \in {"main_end", "exited"}

\* C19: the selection is 1-based.  A number n with 1 <= n <= number of
\* listed workflows hands the n-th listed workflow to execute_workflow;
\* after any other input (0, negative, too large, not a number) nothing is
\* planned, no confirmation is asked and no command is run.
ThmC19_OneBasedSelection ==
    (entry = "main" /\ choice.kind \in {"int", "text"}) =>
        IF InListing
        THEN workflow_name = config.workflows[choice.n].name /\ pc # "select"
        ELSE NothingPlanned

\* The second listed workflow was chosen with 2 and one of its commands ran.
WitC19_SecondChosen ==
    /\ entry = "main" /\ choice = [kind |-> "int", n |-> 2]
    /\ workflow_name = "sync"
    /\ invoked # <<>>

\* The checkout of the target of step k succeeded.
TargetCheckedOut(k, target) ==
    /\ CallsOf(k) # <<>>
    /\ CallsOf(k)[1].cmd = <<L("git checkout ")>> \o target
    /\ CallsOf(k)[1].ok

\* The last command run is a failed command of step k.
NothingAfterFailure(k) ==
    /\ invoked[Len(invoked)].step = k
    /\ ~invoked[Len(invoked)].ok

\* C20: once a guarded merge step has ended: if it succeeded the repository
\* is on current_branch; if the checkout of the target succeeded and the pull
\* or the merge failed, the repository is on the target branch, and the
\* failed command is the last command run (nothing switches back).
ThmC20_BranchAfterMerge ==
    \A k \in 1..Len(results) : \A target \in Targets :
        IsMergeOf(k, target) =>
            /\ results[k] => head = current_branch
            /\ (~results[k] /\ TargetCheckedOut(k, target)) =>
                  (head = target /\ NothingAfterFailure(k))

\* Started on feature-x, the pull failed after the checkout of production:
\* execute_workflow has returned and the repository is on production.
WitC20_LeftOnTarget ==
    /\ current_branch = <<L("feature-x")>>
    /\ Len(results) = 1 /\ ~results[1]
    /\ IsMergeOf(1, <<L("production")>>)
    /\ Len(CallsOf(1)) = 2
    /\ CallsOf(1)[1].ok /\ ~CallsOf(1)[2].ok
    /\ head = <<L("production")>>
    /\ pc \in {"returned", "main_end", "exited"}

\* A direct call with k >= 1 occurrences of {{version}} in the template, no
\* `version` key in the tree, every other placeholder resolving to plain text.
RepeatedVersionCase ==
    /\ Substituted /\ ~HasVersionKey
    /\ VersionOccurrences(template) >= 1
    /\ \A n \in 1..Len(template) :
          template[n].t = "ph" =>
              template[n] = P(<<"version">>) \/ LooksUpPlainText(template[n])

\* One prompt was shown for each answer read.
PromptPerAnswer ==
    ConsoleNs("version_prompt") = 1..Len(typed)

\* C21: with k >= 1 occurrences of {{version}} and no `version` key, there
\* is one prompt per occurrence; if no answer is empty, k answers are read
\* and the result is the template with every occurrence replaced by the
\* first answer, whatever the later answers are; an empty answer to any of
\* the prompts makes the call return None.
StmtC21_FirstAnswerEverywhere ==
    RepeatedVersionCase =>
        /\ PromptPerAnswer
        /\ IF \E n \in 1..Len(typed) : Strip(typed[n]) = <<>>
           THEN resolved.res = "none"
           ELSE /\ Len(typed) = VersionOccurrences(template)
                /\ resolved.res = "ok"
                /\ resolved.s = WithVersion(template, Strip(typed[1]))

====
